---- MODULE Spec2Model ----
(***************************************************************************)
(* Model of the two Popcorn migration test harnesses                       *)
(*   ft2c : simple_mt_tests/ft2c/ft2c.c             (one travelling task)  *)
(*   tnd  : simple_mt_tests/threads_never_die/tnd.c (nthreads tasks)       *)
(* One behaviour is one run of one harness (variable harness).  The        *)
(* kernel library (migrate, popcorn_getnodeinfo, popcorn_getthreadinfo,    *)
(* gettid, posix_memalign) is the environment: every call returns a value  *)
(* drawn from a small set.                                                 *)
(***************************************************************************)
EXTENDS Integers, Sequences, FiniteSets, TLC

\* ---------------------------------------------------------------- bounds
\* Largest task count tried for tnd (its third argument).
MaxThreads == 2
\* Number of migrate calls followed per task (tnd's while(1) never ends).
MaxHops == 3

\* ------------------------------------------------------ program constants
EINVAL == 22
EAGAIN == 11
EBUSY == 16
ENOMEM == 12
MAX_POPCORN_NODES == 32
NODE_OFFLINE == 0
NODE_ONLINE == 1
POPCORN_NODE_AARCH64 == 0
POPCORN_NODE_X86 == 1
\* int is 32 bits wide
IntBits == 32

\* ------------------------------------------------------------ input sets
Harnesses == {"ft2c", "tnd"}
\* values atoi may give for the two node id arguments: negative, in range,
\* equal to each other, and MAX_POPCORN_NODES
SourceArgs == {-1, 0, MAX_POPCORN_NODES}
SinkArgs == {-1, 0, 1, MAX_POPCORN_NODES}
\* values atoi may give for the task count argument of tnd
CountArgs == 0..MaxThreads
Threads == 0..(MaxThreads - 1)
\* gettid(): -1, the task's kernel thread id, or another thread id
TidOf(i) == 100 + i
StrayTid == TidOf(MaxThreads)
MainPid == 1 + TidOf(MaxThreads)
\* migrate(): 0 on success, -EINVAL, -EBUSY, -EAGAIN, or any other status
MigrateStatuses == {0, -EINVAL, -EBUSY, -EAGAIN, -1}
\* popcorn_getnodeinfo() / popcorn_getthreadinfo() return value
QueryStatuses == {0, -EINVAL}
\* posix_memalign() return value
AllocStatuses == {0, ENOMEM}

\* ------------------------------------------------------------- variables
VARIABLES
    harness,        \* which program runs
    argc,           \* number of command line words, program name included
    argv1, argv2, argv3,   \* atoi(argv[1..3])
    mpc,            \* main's position
    source_node, sink_node, nthreads,   \* main's locals / global nthreads
    mi,             \* main's loop index i
    main_errno,     \* ft2c_errno / tnd_errno
    errno_ptr,      \* main's local errno_ptr: "&errno" or "NULL"
    exit_code,      \* <<>> while main runs, then <<the value main returned>>
    heap,           \* per task record: "none", "live", "freed"
    handles,        \* tnd's array threads: "none", "live", "null"
    barrier_count,  \* count given to pthread_barrier_init (0: not initialised)
    barrier_waiting,\* participants blocked in pthread_barrier_wait
    barrier_released,\* participants released by the last arrival
    all_done, gcount,
    th,             \* the struct thread records
    tpc,            \* each task thread's position
    loc,            \* each task thread's locals
    hops,           \* history: the migrate calls each task issued
    fresh,          \* history: node query passed since the last migrate returned
    initq,          \* history: what the task's first node query reported
    healthy,        \* history: every call the task made so far went well
    verdict,        \* the FAILED / PASSED line a task printed last
    stdout_passed   \* main printed its "TEST PASSED" line

vars == <<harness, argc, argv1, argv2, argv3, mpc, source_node, sink_node,
          nthreads, mi, main_errno, errno_ptr, exit_code, heap, handles,
          barrier_count, barrier_waiting, barrier_released, all_done, gcount,
          th, tpc, loc, hops, fresh, initq, healthy, verdict, stdout_passed>>

mainVars == <<mpc, source_node, sink_node, nthreads, mi, main_errno, errno_ptr,
              exit_code, stdout_passed>>
barrierVars == <<barrier_count, barrier_waiting, barrier_released>>
histVars == <<hops, fresh, initq, healthy>>
inputVars == <<harness, argc, argv1, argv2, argv3>>

\* gettid() as a task sees it.  tnd never compares two thread ids, so there a
\* changed id is left out: it would only multiply the states.
GetTidValues(i) ==
    {-1, TidOf(i)} \cup (IF harness = "ft2c" THEN {StrayTid} ELSE {})

\* ------------------------------------------------------------ data model
\* struct thread (thread_info is the pthread handle, kept in tpc)
EmptyThread ==
    [tid |-> 0, source_nid |-> 0, sink_nid |-> 0, done |-> 0, err |-> 0,
     flag |-> 0, arch_types |-> [n \in 0..1 |-> 0], oob |-> FALSE]

EmptyLocals ==
    [source_tid |-> 0, sink_tid |-> 0, temp_tid |-> 0, thread_errno |-> 0,
     reg |-> 0]

NoVerdict == [tag |-> "Pending", arg |-> 0]

\* argc of a well-formed command line: ft2c takes 2 arguments, tnd takes 3
ExpectedArgc(h) == IF h = "ft2c" THEN 3 ELSE 4

\* the process image when main is entered
Startup ==
    /\ mpc = "start"
    /\ source_node = 0
    /\ sink_node = 0
    /\ nthreads = 0
    /\ mi = 0
    /\ main_errno = 0
    /\ errno_ptr = "&errno"
    /\ exit_code = <<>>
    /\ heap = [i \in Threads |-> "none"]
    /\ handles = "none"
    /\ barrier_count = 0
    /\ barrier_waiting = {}
    /\ barrier_released = {}
    /\ all_done = 0
    /\ gcount = 0
    /\ th = [i \in Threads |-> EmptyThread]
    /\ tpc = [i \in Threads |-> "none"]
    /\ loc = [i \in Threads |-> EmptyLocals]
    /\ hops = [i \in Threads |-> <<>>]
    /\ fresh = [i \in Threads |-> FALSE]
    /\ initq = [i \in Threads |-> "none"]
    /\ healthy = [i \in Threads |-> TRUE]
    /\ verdict = [i \in Threads |-> NoVerdict]
    /\ stdout_passed = FALSE

\* runs with a well-formed command line
Init ==
    /\ harness \in Harnesses
    /\ argc = ExpectedArgc(harness)
    /\ argv1 \in SourceArgs
    /\ argv2 \in SinkArgs
    /\ argv3 \in (IF harness = "tnd" THEN CountArgs ELSE {0})
    /\ Startup


\* --------------------------------------------------------------- helpers
\* INT_MAX, written so that no intermediate value leaves the int range
IntMax == (2 ^ (IntBits - 2) - 1) * 2 + 1
IntMin == -IntMax - 1

\* any command line: one word too few or too many, node ids from both ends
\* of int and both edges of the node range, a negative task count
ArgCounts(h) == (ExpectedArgc(h) - 1)..(ExpectedArgc(h) + 1)
NodeArgs ==
    {IntMin, -1, 0, 1, MAX_POPCORN_NODES - 1, MAX_POPCORN_NODES, IntMax}
TaskCountArgs == {-1, 0, 1}

ArgInit ==
    /\ harness \in Harnesses
    /\ argc \in ArgCounts(harness)
    /\ argv1 \in NodeArgs
    /\ argv2 \in NodeArgs
    /\ argv3 \in (IF harness = "tnd" THEN TaskCountArgs ELSE {0})
    /\ Startup

\* main takes part in the barrier under this participant id
MainId == MaxThreads

\* the sign bit and the low IntBits-1 bits of an int in two's complement
SignBit(x) == x < 0
LowBits(x) == IF x >= 0 THEN x ELSE (x + IntMax) + 1
FromBits(sign, low) == IF sign THEN (low - IntMax) - 1 ELSE low

RECURSIVE OrBits(_, _, _)
OrBits(a, b, n) ==
    IF n = 0 THEN 0
    ELSE (IF a % 2 = 1 \/ b % 2 = 1 THEN 1 ELSE 0)
         + 2 * OrBits(a \div 2, b \div 2, n - 1)

\* the C expression (a | b) on int
BitOr(a, b) ==
    FromBits(SignBit(a) \/ SignBit(b),
             OrBits(LowBits(a), LowBits(b), IntBits - 1))

\* main without its if on equal node ids
NodeIdsEqual_Never(src, snk) == FALSE

\* the if condition on the node ids in main
NodeIdsEqual(src, snk) == src = snk

\* the else-if condition with > where the code has >=
NodeIdsOutOfRange_OffByOne(src, snk) ==
    BitOr(src, snk) < 0 \/ src > MAX_POPCORN_NODES \/ snk > MAX_POPCORN_NODES

\* the else-if condition on the node ids in main
NodeIdsOutOfRange(src, snk) ==
    BitOr(src, snk) < 0 \/ src >= MAX_POPCORN_NODES \/ snk >= MAX_POPCORN_NODES

\* what one popcorn_getnodeinfo call may hand back for the two nodes asked about
NodeQueries(local, remote) ==
    [err : QueryStatuses, cur : {local, remote},
     st : [{local, remote} -> {NODE_OFFLINE, NODE_ONLINE}]]

\* what one popcorn_getthreadinfo call may hand back
ThreadQueries(local, remote) == [err : QueryStatuses, cur : {local, remote}]

\* pnodes[nid].arch of the kernel's node table
ArchOf(nid) == IF nid % 2 = 0 THEN POPCORN_NODE_X86 ELSE POPCORN_NODE_AARCH64

\* the report a node query made, read off the values it handed back
QueryReport(local, remote, q) ==
    IF q.err # 0 THEN "error"
    ELSE IF q.cur = local /\ q.st[local] = NODE_ONLINE /\ q.st[remote] = NODE_ONLINE
         THEN "ok"
         ELSE "bad"

\* node_sanity_check without its test of the remote node's status
node_sanity_check_NoRemoteTest(local_nid, remote_nid, q) ==
    IF q.err # 0 THEN q.err
    ELSE IF q.cur # local_nid THEN -1
    ELSE IF q.st[local_nid] = NODE_OFFLINE THEN -1
    ELSE 0

\* node_sanity_check without its test of the current node
node_sanity_check_NoCurrentTest(local_nid, remote_nid, q) ==
    IF q.err # 0 THEN q.err
    ELSE IF q.st[local_nid] = NODE_OFFLINE THEN -1
    ELSE IF q.st[remote_nid] = NODE_OFFLINE THEN -1
    ELSE 0

\* node_sanity_check without its test of the local node's status
node_sanity_check_NoLocalTest(local_nid, remote_nid, q) ==
    IF q.err # 0 THEN q.err
    ELSE IF q.cur # local_nid THEN -1
    ELSE IF q.st[remote_nid] = NODE_OFFLINE THEN -1
    ELSE 0

\* return value of node_sanity_check
node_sanity_check(local_nid, remote_nid, q) ==
    IF q.err # 0 THEN q.err
    ELSE IF q.cur # local_nid THEN -1
    ELSE IF q.st[local_nid] = NODE_OFFLINE THEN -1
    ELSE IF q.st[remote_nid] = NODE_OFFLINE THEN -1
    ELSE 0

\* return value of thread_sanity_check
thread_sanity_check(nid, ts) ==
    IF ts.err # 0 THEN ts.err
    ELSE IF ts.cur # nid THEN -1
    ELSE 0

\* the switch with the -EBUSY and -EAGAIN cases taking each other's message
MigrateVerdict_CasesSwapped(status, sink_nid) ==
    CASE status = -EINVAL -> [tag |-> "InvalidDestination", arg |-> sink_nid]
      [] status = -EAGAIN -> [tag |-> "AlreadyAtDestination", arg |-> sink_nid]
      [] status = -EBUSY  -> [tag |-> "DestinationOffline", arg |-> sink_nid]
      [] OTHER            -> [tag |-> "Unclassified", arg |-> status]

\* the FAILED line the switch on the migrate status prints
MigrateVerdict(status, sink_nid) ==
    CASE status = -EINVAL -> [tag |-> "InvalidDestination", arg |-> sink_nid]
      [] status = -EBUSY  -> [tag |-> "AlreadyAtDestination", arg |-> sink_nid]
      [] status = -EAGAIN -> [tag |-> "DestinationOffline", arg |-> sink_nid]
      [] OTHER            -> [tag |-> "Unclassified", arg |-> status]

Verdict(tag) == [tag |-> tag, arg |-> 0]

\* one migrate call, as the history keeps it
Hop(dest, status, guarded) == [dest |-> dest, ok |-> (status = 0), guarded |-> guarded]

\* pthread_barrier_wait: the caller arrives; the last arrival releases everyone
BarrierArrive(p) ==
    IF barrier_count = 0
    THEN \* the barrier was never initialised: the call may return at once
         \* or block for ever
         \E returns \in BOOLEAN :
            IF returns
            THEN /\ barrier_released' = barrier_released \cup {p}
                 /\ barrier_waiting' = barrier_waiting
            ELSE /\ barrier_waiting' = barrier_waiting \cup {p}
                 /\ barrier_released' = barrier_released
    ELSE IF Cardinality(barrier_waiting) + 1 = barrier_count
    THEN /\ barrier_released' = barrier_released \cup barrier_waiting \cup {p}
         /\ barrier_waiting' = {}
    ELSE /\ barrier_waiting' = barrier_waiting \cup {p}
         /\ barrier_released' = barrier_released

\* pthread_barrier_wait returns for a released caller
BarrierLeave(p) ==
    /\ p \in barrier_released
    /\ barrier_released' = barrier_released \ {p}
    /\ barrier_waiting' = barrier_waiting

\* ============================================================ ft2c: main
ft2c_main_start ==
    /\ harness = "ft2c" /\ mpc = "start"
    /\ \E source_pid \in {-1, MainPid} :
          IF source_pid = -1
          THEN /\ main_errno' = -1
               /\ exit_code' = <<-1>>
               /\ mpc' = "exited"
          ELSE /\ mpc' = "args"
               /\ UNCHANGED <<main_errno, exit_code>>
    /\ UNCHANGED <<inputVars, source_node, sink_node, nthreads, mi, errno_ptr,
                   stdout_passed, heap, handles, barrierVars, all_done, gcount, th, tpc,
                   loc, histVars, verdict>>

\* if (argc != 3) only prints; atoi(argv[k]) of a missing argument reads
\* through the NULL that ends argv and the process dies of SIGSEGV
ft2c_main_args ==
    /\ harness = "ft2c" /\ mpc = "args"
    /\ IF argc < ExpectedArgc("ft2c")
       THEN /\ mpc' = "crashed"
            /\ UNCHANGED <<source_node, sink_node>>
       ELSE /\ source_node' = argv1
            /\ sink_node' = argv2
            /\ mpc' = "validate"
    /\ UNCHANGED <<inputVars, nthreads, mi, main_errno, errno_ptr, exit_code,
                   stdout_passed, heap, handles, barrierVars, all_done, gcount, th, tpc,
                   loc, histVars, verdict>>

ft2c_main_validate ==
    /\ harness = "ft2c" /\ mpc = "validate"
    /\ IF \/ NodeIdsEqual(source_node, sink_node)
          \/ NodeIdsOutOfRange(source_node, sink_node)
       THEN /\ main_errno' = -1
            /\ exit_code' = <<-1>>
            /\ mpc' = "exited"
       ELSE /\ mpc' = "alloc"
            /\ UNCHANGED <<main_errno, exit_code>>
    /\ UNCHANGED <<inputVars, source_node, sink_node, nthreads, mi, errno_ptr,
                   stdout_passed, heap, handles, barrierVars, all_done, gcount, th, tpc,
                   loc, histVars, verdict>>

ft2c_main_alloc ==
    /\ harness = "ft2c" /\ mpc = "alloc"
    /\ \E r \in AllocStatuses :
          /\ main_errno' = r
          /\ IF r # 0
             THEN /\ exit_code' = <<r>>
                  /\ mpc' = "exited"
                  /\ UNCHANGED <<heap, th>>
             ELSE /\ mpc' = "init"
                  /\ heap' = [heap EXCEPT ![0] = "live"]
                  \* the block is not zeroed: tid holds whatever was there
                  /\ \E garbage \in {0, StrayTid} :
                        th' = [th EXCEPT ![0].tid = garbage]
                  /\ UNCHANGED exit_code
    /\ UNCHANGED <<inputVars, source_node, sink_node, nthreads, mi, errno_ptr,
                   stdout_passed, handles, barrierVars, all_done, gcount, tpc,
                   loc, histVars, verdict>>

ft2c_main_init ==
    /\ harness = "ft2c" /\ mpc = "init"
    /\ barrier_count' = 2
    /\ th' = [th EXCEPT ![0].source_nid = source_node,
                        ![0].sink_nid = sink_node,
                        ![0].done = 0]
    /\ tpc' = [tpc EXCEPT ![0] = "gettid"]
    /\ mpc' = "barrier"
    /\ UNCHANGED <<inputVars, source_node, sink_node, nthreads, mi, main_errno,
                   errno_ptr, exit_code, stdout_passed, heap, handles, barrier_waiting,
                   barrier_released, all_done, gcount, loc, histVars, verdict>>

ft2c_main_barrier_wait ==
    /\ harness = "ft2c" /\ mpc = "barrier"
    /\ BarrierArrive(MainId)
    /\ mpc' = "in_barrier"
    /\ UNCHANGED <<inputVars, source_node, sink_node, nthreads, mi, main_errno,
                   errno_ptr, exit_code, stdout_passed, heap, handles, barrier_count,
                   all_done, gcount, th, tpc, loc, histVars, verdict>>

ft2c_main_barrier_pass ==
    /\ harness = "ft2c" /\ mpc = "in_barrier"
    /\ BarrierLeave(MainId)
    /\ mpc' = "spin"
    /\ UNCHANGED <<inputVars, source_node, sink_node, nthreads, mi, main_errno,
                   errno_ptr, exit_code, stdout_passed, heap, handles, barrier_count,
                   all_done, gcount, th, tpc, loc, histVars, verdict>>

\* while(!pcn_thread->done);  done is a plain int that the task writes with
\* no synchronisation: the read races with the write, and a build may keep
\* the value it read first.  Finding done = 0 main may thus spin for ever; a
\* build that reads again each turn is the run where this step comes later.
ft2c_main_spin ==
    /\ harness = "ft2c" /\ mpc = "spin"
    /\ mpc' = IF th[0].done # 0 THEN "join" ELSE "spin_forever"
    /\ UNCHANGED <<inputVars, source_node, sink_node, nthreads, mi, main_errno,
                   errno_ptr, exit_code, stdout_passed, heap, handles, barrierVars,
                   all_done, gcount, th, tpc, loc, histVars, verdict>>

\* main going from its spin loop to free without waiting in pthread_join
ft2c_main_join_NoWait ==
    /\ harness = "ft2c" /\ mpc = "join"
    /\ errno_ptr' = "NULL"
    /\ mpc' = "free"
    /\ UNCHANGED <<inputVars, source_node, sink_node, nthreads, mi, main_errno,
                   exit_code, stdout_passed, heap, handles, barrierVars,
                   all_done, gcount, th, tpc, loc, histVars, verdict>>

\* pthread_join stores the thread's return value (NULL) in errno_ptr itself,
\* not in the int it points to
ft2c_main_join ==
    /\ harness = "ft2c" /\ mpc = "join"
    /\ tpc[0] = "returned"
    /\ errno_ptr' = "NULL"
    /\ mpc' = "free"
    /\ UNCHANGED <<inputVars, source_node, sink_node, nthreads, mi, main_errno,
                   exit_code, stdout_passed, heap, handles, barrierVars, all_done, gcount,
                   th, tpc, loc, histVars, verdict>>

ft2c_main_free ==
    /\ harness = "ft2c" /\ mpc = "free"
    /\ heap' = [heap EXCEPT ![0] = "freed"]
    /\ mpc' = "return"
    /\ UNCHANGED <<inputVars, source_node, sink_node, nthreads, mi, main_errno,
                   errno_ptr, exit_code, stdout_passed, handles, barrierVars,
                   all_done, gcount, th, tpc, loc, histVars, verdict>>

ft2c_main_return ==
    /\ harness = "ft2c" /\ mpc = "return"
    /\ stdout_passed' = TRUE
    /\ exit_code' = <<main_errno>>
    /\ mpc' = "exited"
    /\ UNCHANGED <<inputVars, source_node, sink_node, nthreads, mi, main_errno,
                   errno_ptr, heap, handles, barrierVars, all_done, gcount, th, tpc, loc,
                   histVars, verdict>>

ft2c_main ==
    \/ ft2c_main_start
    \/ ft2c_main_args
    \/ ft2c_main_validate
    \/ ft2c_main_alloc
    \/ ft2c_main_init
    \/ ft2c_main_barrier_wait
    \/ ft2c_main_barrier_pass
    \/ ft2c_main_spin
    \/ ft2c_main_join
    \/ ft2c_main_free
    \/ ft2c_main_return


\* ==================================================== ft2c: child_thread
\* everything a step of the task thread leaves alone outside its own record
ChildFrame ==
    UNCHANGED <<inputVars, mainVars, heap, handles, barrier_count, gcount>>

\* pid_t source_tid = gettid();
ft2c_child_gettid ==
    /\ harness = "ft2c" /\ tpc[0] = "gettid"
    /\ \E t \in GetTidValues(0) :
          /\ loc' = [loc EXCEPT ![0].source_tid = t]
          /\ healthy' = [healthy EXCEPT ![0] = @ /\ t = TidOf(0)]
    /\ tpc' = [tpc EXCEPT ![0] = "barrier"]
    /\ ChildFrame
    /\ UNCHANGED <<barrier_waiting, barrier_released, all_done, th, hops, fresh,
                   initq, verdict>>

ft2c_child_barrier_wait ==
    /\ harness = "ft2c" /\ tpc[0] = "barrier"
    /\ BarrierArrive(0)
    /\ tpc' = [tpc EXCEPT ![0] = "in_barrier"]
    /\ ChildFrame
    /\ UNCHANGED <<all_done, th, loc, histVars, verdict>>

\* the barrier lets the thread go; if(source_tid == -1) ... pcn_thread->tid = source_tid
ft2c_child_check_tid ==
    /\ harness = "ft2c" /\ tpc[0] = "in_barrier"
    /\ BarrierLeave(0)
    /\ IF loc[0].source_tid = -1
       THEN /\ loc' = [loc EXCEPT ![0].thread_errno = -1]
            /\ th' = [th EXCEPT ![0].done = 1]
            /\ verdict' = [verdict EXCEPT ![0] = Verdict("TidInvalid")]
            /\ tpc' = [tpc EXCEPT ![0] = "return"]
       ELSE /\ th' = [th EXCEPT ![0].tid = loc[0].source_tid]
            /\ tpc' = [tpc EXCEPT ![0] = "node_sanity"]
            /\ UNCHANGED <<loc, verdict>>
    /\ ChildFrame
    /\ UNCHANGED <<all_done, histVars>>

\* if((ft2c_thread_errno = node_sanity_check(source_nid, sink_nid))) ...
ft2c_child_node_sanity ==
    /\ harness = "ft2c" /\ tpc[0] = "node_sanity"
    /\ \E q \in NodeQueries(th[0].source_nid, th[0].sink_nid) :
          LET r == node_sanity_check(th[0].source_nid, th[0].sink_nid, q)
              rep == QueryReport(th[0].source_nid, th[0].sink_nid, q)
          IN /\ loc' = [loc EXCEPT ![0].thread_errno = r]
             /\ initq' = [initq EXCEPT ![0] = rep]
             /\ fresh' = [fresh EXCEPT ![0] = (rep = "ok")]
             /\ healthy' = [healthy EXCEPT ![0] = @ /\ rep = "ok"]
             /\ IF r # 0
                THEN /\ th' = [th EXCEPT ![0].done = 1]
                     /\ verdict' = [verdict EXCEPT ![0] = Verdict("NodeSanity")]
                     /\ tpc' = [tpc EXCEPT ![0] = "return"]
                ELSE /\ tpc' = [tpc EXCEPT ![0] = "thread_sanity"]
                     /\ UNCHANGED <<th, verdict>>
    /\ ChildFrame
    /\ UNCHANGED <<barrier_waiting, barrier_released, all_done, hops>>

\* if((ft2c_thread_errno = thread_sanity_check(source_nid, source_tid))) ...
ft2c_child_thread_sanity ==
    /\ harness = "ft2c" /\ tpc[0] = "thread_sanity"
    /\ \E ts \in ThreadQueries(th[0].source_nid, th[0].sink_nid) :
          LET r == thread_sanity_check(th[0].source_nid, ts)
          IN /\ loc' = [loc EXCEPT ![0].thread_errno = r]
             /\ healthy' = [healthy EXCEPT ![0] =
                   @ /\ ts.err = 0 /\ ts.cur = th[0].source_nid]
             /\ IF r # 0
                THEN /\ th' = [th EXCEPT ![0].done = 1]
                     /\ verdict' = [verdict EXCEPT ![0] = Verdict("ThreadSanity")]
                     /\ tpc' = [tpc EXCEPT ![0] = "return"]
                ELSE /\ tpc' = [tpc EXCEPT ![0] = "migrate_out"]
                     /\ UNCHANGED <<th, verdict>>
    /\ ChildFrame
    /\ UNCHANGED <<barrier_waiting, barrier_released, all_done, hops,
                   fresh, initq>>

\* ft2c_thread_errno = migrate(sink_nid); the switch on a non-zero status
ft2c_child_migrate_out ==
    /\ harness = "ft2c" /\ tpc[0] = "migrate_out"
    /\ Len(hops[0]) < MaxHops
    /\ \E status \in MigrateStatuses :
          /\ healthy' = [healthy EXCEPT ![0] = @ /\ status = 0]
          /\ hops' = [hops EXCEPT ![0] =
                         Append(@, Hop(th[0].sink_nid, status, fresh[0]))]
          /\ loc' = [loc EXCEPT ![0].thread_errno = status]
          /\ IF status # 0
             THEN /\ verdict' = [verdict EXCEPT ![0] =
                                     MigrateVerdict(status, th[0].sink_nid)]
                  /\ th' = [th EXCEPT ![0].done = 1]
             ELSE UNCHANGED <<th, verdict>>
    /\ fresh' = [fresh EXCEPT ![0] = FALSE]
    /\ tpc' = [tpc EXCEPT ![0] = "check_done"]
    /\ ChildFrame
    /\ UNCHANGED <<barrier_waiting, barrier_released, all_done, initq>>

\* if(pcn_thread->done) return NULL;
ft2c_child_check_done ==
    /\ harness = "ft2c" /\ tpc[0] = "check_done"
    /\ tpc' = [tpc EXCEPT ![0] = IF th[0].done # 0 THEN "returned" ELSE "sink_tid"]
    /\ ChildFrame
    /\ UNCHANGED <<barrier_waiting, barrier_released, all_done, th, loc,
                   histVars, verdict>>

\* sink_tid = gettid(); if(sink_tid == -1) ...   (REMOTE_PRINT is 0: no check here)
ft2c_child_sink_tid ==
    /\ harness = "ft2c" /\ tpc[0] = "sink_tid"
    /\ \E t \in GetTidValues(0) :
          /\ healthy' = [healthy EXCEPT ![0] = @ /\ t = TidOf(0)]
          /\ IF t = -1
             THEN /\ loc' = [loc EXCEPT ![0].sink_tid = t, ![0].thread_errno = -1]
                  /\ th' = [th EXCEPT ![0].done = 1]
                  /\ verdict' = [verdict EXCEPT ![0] = Verdict("TidInvalid")]
                  /\ tpc' = [tpc EXCEPT ![0] = "return"]
             ELSE /\ loc' = [loc EXCEPT ![0].sink_tid = t]
                  /\ tpc' = [tpc EXCEPT ![0] = "migrate_back"]
                  /\ UNCHANGED <<th, verdict>>
    /\ ChildFrame
    /\ UNCHANGED <<barrier_waiting, barrier_released, all_done, hops,
                   fresh, initq>>

\* ft2c_thread_errno = migrate(source_nid); the status is not looked at
ft2c_child_migrate_back ==
    /\ harness = "ft2c" /\ tpc[0] = "migrate_back"
    /\ Len(hops[0]) < MaxHops
    /\ \E status \in MigrateStatuses :
          /\ healthy' = [healthy EXCEPT ![0] = @ /\ status = 0]
          /\ hops' = [hops EXCEPT ![0] =
                         Append(@, Hop(th[0].source_nid, status, fresh[0]))]
          /\ loc' = [loc EXCEPT ![0].thread_errno = status]
    /\ fresh' = [fresh EXCEPT ![0] = FALSE]
    /\ tpc' = [tpc EXCEPT ![0] = "verify_tid"]
    /\ ChildFrame
    /\ UNCHANGED <<barrier_waiting, barrier_released, all_done, th, initq,
                   verdict>>

\* the check of temp_tid without its else-if on a changed thread id
VerifyTid_NoMismatchTest(temp_tid, source_tid) ==
    IF temp_tid = -1 THEN "TidInvalid"
    ELSE "ok"

\* the check of temp_tid against source_tid once gettid() gave it
VerifyTid(temp_tid, source_tid) ==
    IF temp_tid = -1 THEN "TidInvalid"
    ELSE IF temp_tid # source_tid THEN "TidMismatch"
    ELSE "ok"

\* temp_tid = gettid(); if(temp_tid == -1) ... else if(temp_tid != source_tid) ...
ft2c_child_verify_tid ==
    /\ harness = "ft2c" /\ tpc[0] = "verify_tid"
    /\ \E t \in GetTidValues(0) :
          LET v == VerifyTid(t, loc[0].source_tid)
          IN /\ healthy' = [healthy EXCEPT ![0] = @ /\ t = TidOf(0)]
             /\ IF v # "ok"
                THEN /\ loc' = [loc EXCEPT ![0].temp_tid = t, ![0].thread_errno = -1]
                     /\ th' = [th EXCEPT ![0].done = 1]
                     /\ verdict' = [verdict EXCEPT ![0] = Verdict(v)]
                     /\ tpc' = [tpc EXCEPT ![0] = "return"]
                ELSE /\ loc' = [loc EXCEPT ![0].temp_tid = t]
                     /\ tpc' = [tpc EXCEPT ![0] = "final_sanity"]
                     /\ UNCHANGED <<th, verdict>>
    /\ ChildFrame
    /\ UNCHANGED <<barrier_waiting, barrier_released, all_done, hops,
                   fresh, initq>>

\* the last node_sanity_check, then the PASSED line and done = 1
ft2c_child_final_sanity ==
    /\ harness = "ft2c" /\ tpc[0] = "final_sanity"
    /\ \E q \in NodeQueries(th[0].source_nid, th[0].sink_nid) :
          LET r == node_sanity_check(th[0].source_nid, th[0].sink_nid, q)
              rep == QueryReport(th[0].source_nid, th[0].sink_nid, q)
          IN /\ loc' = [loc EXCEPT ![0].thread_errno = r]
             /\ fresh' = [fresh EXCEPT ![0] = (rep = "ok")]
             /\ healthy' = [healthy EXCEPT ![0] = @ /\ rep = "ok"]
             /\ verdict' = [verdict EXCEPT ![0] =
                   IF r # 0 THEN Verdict("NodeSanity") ELSE Verdict("Passed")]
    /\ th' = [th EXCEPT ![0].done = 1]
    /\ tpc' = [tpc EXCEPT ![0] = "return"]
    /\ ChildFrame
    /\ UNCHANGED <<barrier_waiting, barrier_released, all_done, hops, initq>>

\* return NULL; after done was set
ft2c_child_return ==
    /\ harness = "ft2c" /\ tpc[0] = "return"
    /\ tpc' = [tpc EXCEPT ![0] = "returned"]
    /\ ChildFrame
    /\ UNCHANGED <<barrier_waiting, barrier_released, all_done, th, loc,
                   histVars, verdict>>

ft2c_child_thread ==
    \/ ft2c_child_gettid
    \/ ft2c_child_barrier_wait
    \/ ft2c_child_check_tid
    \/ ft2c_child_node_sanity
    \/ ft2c_child_thread_sanity
    \/ ft2c_child_migrate_out
    \/ ft2c_child_check_done
    \/ ft2c_child_sink_tid
    \/ ft2c_child_migrate_back
    \/ ft2c_child_verify_tid
    \/ ft2c_child_final_sanity
    \/ ft2c_child_return

\* ============================================================= tnd: main
tnd_main_start ==
    /\ harness = "tnd" /\ mpc = "start"
    /\ nthreads' = 0
    /\ all_done' = 0
    /\ gcount' = 0
    /\ \E source_pid \in {-1, MainPid} :
          IF source_pid = -1
          THEN /\ main_errno' = -1
               /\ exit_code' = <<-1>>
               /\ mpc' = "exited"
          ELSE /\ mpc' = "args"
               /\ UNCHANGED <<main_errno, exit_code>>
    /\ UNCHANGED <<inputVars, source_node, sink_node, mi, errno_ptr,
                   stdout_passed, heap, handles, barrierVars, th, tpc, loc, histVars,
                   verdict>>

\* if (argc != 4) only prints; a missing argument kills the process in atoi
tnd_main_args ==
    /\ harness = "tnd" /\ mpc = "args"
    /\ IF argc < ExpectedArgc("tnd")
       THEN /\ mpc' = "crashed"
            /\ UNCHANGED <<source_node, sink_node, nthreads>>
       ELSE /\ source_node' = argv1
            /\ sink_node' = argv2
            /\ nthreads' = argv3
            /\ mpc' = "validate"
    /\ UNCHANGED <<inputVars, mi, main_errno, errno_ptr, exit_code,
                   stdout_passed, heap, handles, barrierVars, all_done, gcount, th, tpc,
                   loc, histVars, verdict>>

tnd_main_validate ==
    /\ harness = "tnd" /\ mpc = "validate"
    /\ IF \/ NodeIdsEqual(source_node, sink_node)
          \/ NodeIdsOutOfRange(source_node, sink_node)
       THEN /\ main_errno' = -1
            /\ exit_code' = <<-1>>
            /\ mpc' = "exited"
       ELSE /\ mpc' = "init_thread_params"
            /\ UNCHANGED <<main_errno, exit_code>>
    /\ UNCHANGED <<inputVars, source_node, sink_node, nthreads, mi, errno_ptr,
                   stdout_passed, heap, handles, barrierVars, all_done, gcount, th, tpc,
                   loc, histVars, verdict>>

\* malloc(sizeof(struct thread *) * nthreads): a negative count converts to a
\* size no allocator can serve; otherwise the call may succeed or fail
MallocOutcomes(n) == IF n < 0 THEN {"null"} ELSE {"live", "null"}

\* __init_thread_params after its malloc: the posix_memalign calls 1..n
\* succeed; when failed is set the next one fails and the function returns
\* its status before it initialises the barrier.  pthread_barrier_init
\* refuses a count below 1 and its status is not looked at.
init_thread_params(n, failed) ==
    /\ heap' = [i \in Threads |-> IF i < n THEN "live" ELSE heap[i]]
    /\ IF failed
       THEN /\ main_errno' = ENOMEM
            /\ UNCHANGED barrier_count
       ELSE /\ main_errno' = 0
            /\ barrier_count' = IF nthreads + 1 >= 1 THEN nthreads + 1
                                 ELSE barrier_count

\* if((tnd_errno = __init_thread_params())) ... return tnd_errno;
\* The result of malloc is not tested: with a NULL array the first
\* posix_memalign stores through threads[0] and the process dies.
tnd_main_init_thread_params ==
    /\ harness = "tnd" /\ mpc = "init_thread_params"
    /\ \E m \in MallocOutcomes(nthreads) :
          /\ handles' = m
          /\ IF m = "null" /\ nthreads > 0
             THEN /\ mpc' = "crashed"
                  /\ UNCHANGED <<heap, main_errno, barrier_count, exit_code>>
             ELSE \E n \in 0..(IF nthreads > 0 THEN nthreads ELSE 0) :
                     /\ init_thread_params(n, n < nthreads)
                     /\ IF n < nthreads
                        THEN /\ exit_code' = <<ENOMEM>>
                             /\ mpc' = "exited"
                        ELSE /\ mpc' = "create"
                             /\ UNCHANGED exit_code
    /\ mi' = 0
    /\ UNCHANGED <<inputVars, source_node, sink_node, nthreads, errno_ptr,
                   stdout_passed, barrier_waiting, barrier_released, all_done,
                   gcount, th, tpc, loc, histVars, verdict>>

\* one turn of for(i = 0; i < nthreads; i++) { ... pthread_create(...) }
tnd_main_create ==
    /\ harness = "tnd" /\ mpc = "create"
    /\ IF mi < nthreads
       THEN /\ th' = [th EXCEPT ![mi] =
                        [tid |-> 0, source_nid |-> source_node,
                         sink_nid |-> sink_node, done |-> 0, err |-> 0,
                         flag |-> 0, arch_types |-> [n \in 0..1 |-> 0],
                         oob |-> FALSE]]
            /\ tpc' = [tpc EXCEPT ![mi] = "gettid"]
            /\ mi' = mi + 1
            /\ UNCHANGED mpc
       ELSE /\ mpc' = "barrier1"
            /\ UNCHANGED <<th, tpc, mi>>
    /\ UNCHANGED <<inputVars, source_node, sink_node, nthreads, main_errno,
                   errno_ptr, exit_code, stdout_passed, heap, handles, barrierVars,
                   all_done, gcount, loc, histVars, verdict>>

\* everything a barrier or spin step of tnd's main leaves alone
TndMainWaitFrame ==
    UNCHANGED <<inputVars, source_node, sink_node, nthreads, main_errno,
                errno_ptr, exit_code, stdout_passed, heap, handles, barrier_count,
                all_done, gcount, th, tpc, loc, histVars, verdict>>

tnd_main_barrier_wait1 ==
    /\ harness = "tnd" /\ mpc = "barrier1"
    /\ BarrierArrive(MainId)
    /\ mpc' = "in_barrier1"
    /\ UNCHANGED mi
    /\ TndMainWaitFrame

tnd_main_barrier_pass1 ==
    /\ harness = "tnd" /\ mpc = "in_barrier1"
    /\ BarrierLeave(MainId)
    /\ mpc' = "spin_gcount"
    /\ UNCHANGED mi
    /\ TndMainWaitFrame

\* while(gcount < nthreads);
tnd_main_spin_gcount ==
    /\ harness = "tnd" /\ mpc = "spin_gcount"
    /\ mpc' = IF gcount < nthreads THEN "spin_forever" ELSE "barrier2"
    /\ UNCHANGED <<mi, barrier_waiting, barrier_released>>
    /\ TndMainWaitFrame

tnd_main_barrier_wait2 ==
    /\ harness = "tnd" /\ mpc = "barrier2"
    /\ BarrierArrive(MainId)
    /\ mpc' = "in_barrier2"
    /\ UNCHANGED mi
    /\ TndMainWaitFrame

tnd_main_barrier_pass2 ==
    /\ harness = "tnd" /\ mpc = "in_barrier2"
    /\ BarrierLeave(MainId)
    /\ mpc' = "spin_all_done"
    /\ UNCHANGED mi
    /\ TndMainWaitFrame

\* while(all_done < nthreads);  the same unsynchronised read as ft2c's
tnd_main_spin_all_done ==
    /\ harness = "tnd" /\ mpc = "spin_all_done"
    /\ mpc' = IF all_done < nthreads THEN "spin_forever" ELSE "join"
    /\ mi' = 0
    /\ UNCHANGED <<barrier_waiting, barrier_released>>
    /\ TndMainWaitFrame

\* one turn of for(i = 0; i < nthreads; i++) { pthread_join(...); free(...); }
tnd_main_join ==
    /\ harness = "tnd" /\ mpc = "join"
    /\ IF mi < nthreads
       THEN /\ tpc[mi] = "returned"
            /\ errno_ptr' = "NULL"
            /\ heap' = [heap EXCEPT ![mi] = "freed"]
            /\ mi' = mi + 1
            /\ UNCHANGED mpc
       ELSE /\ mpc' = "return"
            /\ UNCHANGED <<errno_ptr, heap, mi>>
    /\ UNCHANGED <<inputVars, source_node, sink_node, nthreads, main_errno,
                   exit_code, stdout_passed, handles, barrierVars, all_done, gcount, th,
                   tpc, loc, histVars, verdict>>

tnd_main_return ==
    /\ harness = "tnd" /\ mpc = "return"
    /\ stdout_passed' = TRUE
    /\ exit_code' = <<main_errno>>
    /\ mpc' = "exited"
    /\ UNCHANGED <<inputVars, source_node, sink_node, nthreads, mi, main_errno,
                   errno_ptr, heap, handles, barrierVars, all_done, gcount, th, tpc, loc,
                   histVars, verdict>>

tnd_main ==
    \/ tnd_main_start
    \/ tnd_main_args
    \/ tnd_main_validate
    \/ tnd_main_init_thread_params
    \/ tnd_main_create
    \/ tnd_main_barrier_wait1
    \/ tnd_main_barrier_pass1
    \/ tnd_main_spin_gcount
    \/ tnd_main_barrier_wait2
    \/ tnd_main_barrier_pass2
    \/ tnd_main_spin_all_done
    \/ tnd_main_join
    \/ tnd_main_return

\* ===================================================== tnd: child_thread
\* what a step of a tnd task leaves alone besides its own record and history
TndChildFrame ==
    UNCHANGED <<inputVars, mainVars, heap, handles, barrierVars, gcount>>

\* arch_types[nid] = value, on the two-element array of the record
SetArch(rec, nid, value) ==
    IF nid \in DOMAIN rec.arch_types
    THEN [rec EXCEPT !.arch_types[nid] = value]
    ELSE [rec EXCEPT !.oob = TRUE]

\* a read of arch_types[nid]: the record after it
ReadArch(rec, nid) ==
    IF nid \in DOMAIN rec.arch_types THEN rec ELSE [rec EXCEPT !.oob = TRUE]

\* printf("%s", arch_sz[arch_types[nid]]): with nid outside the array the
\* index into arch_sz is whatever lies behind the record, and printf may go
\* on with some string or kill the process
PrintfOutcomes(rec, nid) ==
    IF nid \in DOMAIN rec.arch_types THEN {mpc} ELSE {mpc, "crashed"}

\* what such a step of a task leaves alone: TndChildFrame but for mpc
TndPrintFrame ==
    UNCHANGED <<inputVars, source_node, sink_node, nthreads, mi, main_errno,
                errno_ptr, exit_code, stdout_passed, heap, handles,
                barrierVars, gcount>>

\* the start of child_thread written against the global pcn_thread, which
\* main left on the record it set up last, instead of the thread's own input
tnd_child_gettid_GlobalRecord(i) ==
    /\ harness = "tnd" /\ mpc # "crashed" /\ tpc[i] = "gettid"
    /\ \E t \in GetTidValues(i) :
          /\ loc' = [loc EXCEPT ![i].source_tid = t]
          /\ healthy' = [healthy EXCEPT ![i] = @ /\ t = TidOf(i)]
          /\ IF t = -1
             THEN /\ th' = [th EXCEPT ![mi - 1].err = -1, ![mi - 1].done = 1]
                  /\ verdict' = [verdict EXCEPT ![i] = Verdict("TidInvalid")]
                  /\ tpc' = [tpc EXCEPT ![i] = "inc_load"]
             ELSE /\ th' = [th EXCEPT ![mi - 1].tid = t]
                  /\ tpc' = [tpc EXCEPT ![i] = "node_sanity"]
                  /\ UNCHANGED verdict
    /\ TndChildFrame
    /\ UNCHANGED <<all_done, hops, fresh, initq>>

\* source_tid = gettid(); if(source_tid == -1) ...; current_thread->tid = source_tid
tnd_child_gettid(i) ==
    /\ harness = "tnd" /\ mpc # "crashed" /\ tpc[i] = "gettid"
    /\ \E t \in GetTidValues(i) :
          /\ loc' = [loc EXCEPT ![i].source_tid = t]
          /\ healthy' = [healthy EXCEPT ![i] = @ /\ t = TidOf(i)]
          /\ IF t = -1
             THEN /\ th' = [th EXCEPT ![i].err = -1, ![i].done = 1]
                  /\ verdict' = [verdict EXCEPT ![i] = Verdict("TidInvalid")]
                  /\ tpc' = [tpc EXCEPT ![i] = "inc_load"]
             ELSE /\ th' = [th EXCEPT ![i].tid = t]
                  /\ tpc' = [tpc EXCEPT ![i] = "node_sanity"]
                  /\ UNCHANGED verdict
    /\ TndChildFrame
    /\ UNCHANGED <<all_done, hops, fresh, initq>>

\* if((current_thread->err = node_sanity_check(snode, rnode, arch_types))) ...
tnd_child_node_sanity(i) ==
    /\ harness = "tnd" /\ mpc # "crashed" /\ tpc[i] = "node_sanity"
    /\ \E q \in NodeQueries(th[i].source_nid, th[i].sink_nid) :
          LET snode == th[i].source_nid
              rnode == th[i].sink_nid
              r == node_sanity_check(snode, rnode, q)
              rep == QueryReport(snode, rnode, q)
          IN /\ initq' = [initq EXCEPT ![i] = rep]
             /\ fresh' = [fresh EXCEPT ![i] = (rep = "ok")]
             /\ healthy' = [healthy EXCEPT ![i] = @ /\ rep = "ok"]
             /\ IF r # 0
                THEN /\ th' = [th EXCEPT ![i].err = r, ![i].done = 1]
                     /\ verdict' = [verdict EXCEPT ![i] = Verdict("NodeSanity")]
                     /\ tpc' = [tpc EXCEPT ![i] = "inc_load"]
                ELSE /\ th' = [th EXCEPT ![i] =
                                 SetArch(SetArch([@ EXCEPT !.err = r],
                                                 snode, ArchOf(snode) + 1),
                                         rnode, ArchOf(rnode) + 1)]
                     /\ tpc' = [tpc EXCEPT ![i] = "migrate_out"]
                     /\ UNCHANGED verdict
    /\ TndChildFrame
    /\ UNCHANGED <<all_done, loc, hops>>

\* current_thread->err = migrate(rnode); the switch on a non-zero status;
\* if (current_thread->done) { all_done++; return NULL; }
tnd_child_migrate_out(i) ==
    /\ harness = "tnd" /\ mpc # "crashed" /\ tpc[i] = "migrate_out"
    /\ Len(hops[i]) < MaxHops
    /\ \E status \in MigrateStatuses :
          /\ healthy' = [healthy EXCEPT ![i] = @ /\ status = 0]
          /\ hops' = [hops EXCEPT ![i] =
                         Append(@, Hop(th[i].sink_nid, status, fresh[i]))]
          /\ IF status # 0
             THEN /\ verdict' = [verdict EXCEPT ![i] =
                                     MigrateVerdict(status, th[i].sink_nid)]
                  /\ th' = [th EXCEPT ![i].err = status, ![i].done = 1]
             ELSE /\ th' = [th EXCEPT ![i].err = status]
                  /\ UNCHANGED verdict
    /\ fresh' = [fresh EXCEPT ![i] = FALSE]
    /\ tpc' = [tpc EXCEPT ![i] = IF th'[i].done # 0 THEN "inc_load" ELSE "sink_tid"]
    /\ TndChildFrame
    /\ UNCHANGED <<all_done, loc, initq>>

\* sink_tid = gettid(); current_thread->flag = sink_tid; if (sink_tid == -1) ...
\* else the printf that reads arch_types[rnode]
tnd_child_sink_tid(i) ==
    /\ harness = "tnd" /\ mpc # "crashed" /\ tpc[i] = "sink_tid"
    /\ \E t \in GetTidValues(i) :
          /\ loc' = [loc EXCEPT ![i].sink_tid = t]
          /\ healthy' = [healthy EXCEPT ![i] = @ /\ t = TidOf(i)]
          /\ IF t = -1
             THEN /\ th' = [th EXCEPT ![i].flag = t, ![i].err = -1, ![i].done = 1]
                  /\ verdict' = [verdict EXCEPT ![i] = Verdict("TidInvalid")]
                  /\ tpc' = [tpc EXCEPT ![i] = "inc_load"]
                  /\ UNCHANGED mpc
             ELSE /\ th' = [th EXCEPT ![i] =
                              ReadArch([@ EXCEPT !.flag = t], th[i].sink_nid)]
                  /\ mpc' \in PrintfOutcomes(th[i], th[i].sink_nid)
                  /\ tpc' = [tpc EXCEPT ![i] = "migrate_back"]
                  /\ UNCHANGED verdict
    /\ TndPrintFrame
    /\ UNCHANGED <<all_done, hops, fresh, initq>>

\* current_thread->err = migrate(current_thread->source_nid); nothing looks at
\* it; then the printf that reads arch_types[snode]
tnd_child_migrate_back(i) ==
    /\ harness = "tnd" /\ mpc # "crashed" /\ tpc[i] = "migrate_back"
    /\ Len(hops[i]) < MaxHops
    /\ \E status \in MigrateStatuses :
          /\ healthy' = [healthy EXCEPT ![i] = @ /\ status = 0]
          /\ hops' = [hops EXCEPT ![i] =
                         Append(@, Hop(th[i].source_nid, status, fresh[i]))]
          /\ th' = [th EXCEPT ![i] =
                      ReadArch([@ EXCEPT !.err = status], th[i].source_nid)]
    /\ mpc' \in PrintfOutcomes(th[i], th[i].source_nid)
    /\ fresh' = [fresh EXCEPT ![i] = FALSE]
    /\ tpc' = [tpc EXCEPT ![i] = "sleep"]
    /\ TndPrintFrame
    /\ UNCHANGED <<all_done, loc, initq, verdict>>

\* the loop with a break after sleep(1): one round trip and the task is done
tnd_child_sleep_Break(i) ==
    /\ harness = "tnd" /\ mpc # "crashed" /\ tpc[i] = "sleep"
    /\ th' = [th EXCEPT ![i].done = 1]
    /\ tpc' = [tpc EXCEPT ![i] = "inc_load"]
    /\ TndChildFrame
    /\ UNCHANGED <<all_done, loc, histVars, verdict>>

\* sleep(1); and back to the top of while(1)
tnd_child_sleep(i) ==
    /\ harness = "tnd" /\ mpc # "crashed" /\ tpc[i] = "sleep"
    /\ tpc' = [tpc EXCEPT ![i] = "migrate_out"]
    /\ TndChildFrame
    /\ UNCHANGED <<all_done, th, loc, histVars, verdict>>

\* all_done++ is a plain int increment: the load ...
tnd_child_inc_load(i) ==
    /\ harness = "tnd" /\ mpc # "crashed" /\ tpc[i] = "inc_load"
    /\ loc' = [loc EXCEPT ![i].reg = all_done]
    /\ tpc' = [tpc EXCEPT ![i] = "inc_store"]
    /\ TndChildFrame
    /\ UNCHANGED <<all_done, th, histVars, verdict>>

\* ... and the store, then return NULL
tnd_child_inc_store(i) ==
    /\ harness = "tnd" /\ mpc # "crashed" /\ tpc[i] = "inc_store"
    /\ all_done' = loc[i].reg + 1
    /\ tpc' = [tpc EXCEPT ![i] = "returned"]
    /\ loc' = [loc EXCEPT ![i] = EmptyLocals]
    /\ TndChildFrame
    /\ UNCHANGED <<th, histVars, verdict>>

tnd_child_thread(i) ==
    \/ tnd_child_gettid(i)
    \/ tnd_child_node_sanity(i)
    \/ tnd_child_migrate_out(i)
    \/ tnd_child_sink_tid(i)
    \/ tnd_child_migrate_back(i)
    \/ tnd_child_sleep(i)
    \/ tnd_child_inc_load(i)
    \/ tnd_child_inc_store(i)

\* ========================================================= specification
Next ==
    \/ ft2c_main
    \/ ft2c_child_thread
    \/ tnd_main
    \/ \E i \in Threads : tnd_child_thread(i)

Spec == Init /\ [][Next]_vars

\* the same programs started with any command line
ArgSpec == ArgInit /\ [][Next]_vars


\* Every thread the scheduler can run gets to run: main and each task thread
\* are kernel threads under a preemptive scheduler.
FairSpec ==
    /\ Spec
    /\ WF_vars(ft2c_main)
    /\ WF_vars(ft2c_child_thread)
    /\ WF_vars(tnd_main)
    /\ \A i \in Threads : WF_vars(tnd_child_thread(i))

\* ================================================================ claims
\* the tasks the run was asked for
Tasks == IF harness = "ft2c" THEN {0} ELSE {i \in Threads : i < nthreads}
Returned(i) == tpc[i] = "returned"
\* positions from which a task only finishes: no call is left on its path
Finishing(i) ==
    tpc[i] \in {"check_done", "return", "returned", "inc_load", "inc_store"}
MigrationErrorTags ==
    {"InvalidDestination", "AlreadyAtDestination", "DestinationOffline",
     "Unclassified"}
\* the status the task's last migrate call returned, where the code keeps it
LastStatus(i) == IF harness = "ft2c" THEN loc[i].thread_errno ELSE th[i].err

\* C1: in ft2c main returns 0 only if the task printed its PASSED line; when
\* the task ended Failed, main returns a non-zero exit code.
C1_ExitZeroOnlyIfPassed ==
    (harness = "ft2c" /\ mpc = "exited" /\ Returned(0))
        => (exit_code = <<0>> <=> verdict[0].tag = "Passed")

\* C2: in tnd with nthreads >= 1, once every task thread has returned, main
\* eventually gets past its barriers and polling loops, joins and returns.
C2_MainReturnsOnceTasksEnd ==
    (harness = "tnd" /\ nthreads >= 1
        /\ \A i \in Tasks : Returned(i))
    ~> (mpc = "exited" /\ stdout_passed)

\* C3: in tnd no task makes its first node query before every task thread is
\* created and the startup barrier has let main and the tasks through.
StartupBarrierPassed ==
    /\ mi = nthreads
    /\ mpc \notin {"start", "args", "validate", "init_thread_params", "create",
                   "barrier1"}
    /\ (mpc = "in_barrier1" => MainId \in barrier_released)
C3_NoSanityCheckBeforeBarrier ==
    harness = "tnd" =>
        \A i \in Threads : initq[i] # "none" => StartupBarrierPassed

\* C4: in tnd all_done counts the tasks that have done their all_done++ and
\* returned: no increment is lost.
C4_NoLostUpdate ==
    harness = "tnd" =>
        all_done = Cardinality({i \in Threads : Returned(i)})

\* C5: in ft2c a non-zero status of the return-hop migrate call ends the task
\* Failed with a migration-error line, never PASSED.
C5_ReturnHopFailureIsMigrationError ==
    (harness = "ft2c" /\ Len(hops[0]) = 2 /\ ~hops[0][2].ok /\ Returned(0))
        => verdict[0].tag \in MigrationErrorTags

\* C6: in tnd a task whose migrate call returned non-zero issues no further
\* migrate call: a failed call is the last one of its task.
C6_NoMigrateAfterFailedHop ==
    harness = "tnd" =>
        \A i \in Threads : \A k \in 1..Len(hops[i]) :
            ~hops[i][k].ok => k = Len(hops[i])

\* C7: in both harnesses a task whose first node query reported the source or
\* the sink Offline, or another current node, has done = 1, a node-sanity
\* FAILED line, no migrate call, and only its return left to do.
C7_BadFirstQueryFailsBeforeMigrating ==
    \A i \in Threads :
        initq[i] = "bad" =>
            /\ hops[i] = <<>>
            /\ th[i].done = 1
            /\ verdict[i].tag = "NodeSanity"
            /\ Finishing(i)
C7_Witness ==
    \E i \in Threads : initq[i] = "bad" /\ Returned(i) /\ harness = "tnd"

\* C8 as stated: every migrate call is issued after a node query, made since
\* the previous migrate call returned, reported both nodes Online.
C8_EveryHopGuarded ==
    \A i \in Threads : \A k \in 1..Len(hops[i]) : hops[i][k].guarded

\* C8 amended: only a task's first migrate call is guarded by a node query
\* that reported the task at source and both nodes Online; every later
\* migrate call is issued with no node query since the one before it.
C8_OnlyFirstHopGuarded ==
    \A i \in Threads : \A k \in 1..Len(hops[i]) :
        hops[i][k].guarded <=> k = 1
C8_Witness ==
    \E i \in Threads : Len(hops[i]) = MaxHops /\ harness = "tnd"

\* C9: in ft2c a task that printed PASSED read, after the return hop, the
\* thread id it read before the first hop; a task that read another one has
\* done = 1 and an identity FAILED line and is finishing.
TempTidRead == Len(hops[0]) = 2 /\ tpc[0] # "verify_tid"
C9_RoundTripIdentity ==
    harness = "ft2c" =>
        /\ verdict[0].tag = "Passed" =>
              /\ TempTidRead
              /\ loc[0].temp_tid = loc[0].source_tid
        /\ (TempTidRead /\ loc[0].temp_tid # loc[0].source_tid) =>
              /\ verdict[0].tag \in {"TidInvalid", "TidMismatch"}
              /\ th[0].done = 1
              /\ Finishing(0)
C9_Witness ==
    /\ harness = "ft2c"
    /\ verdict[0].tag = "Passed"
    /\ Returned(0)
    /\ loc[0].temp_tid = TidOf(0)

\* C10: in both harnesses a non-zero status of a migrate(sink) call is the
\* task's last call: the task has done = 1, the FAILED line that belongs to
\* the status (-EINVAL invalid destination, -EAGAIN destination offline,
\* -EBUSY already at destination, otherwise the raw code) and is finishing.
C10_Line(status, sink_nid) ==
    IF status = -EINVAL THEN [tag |-> "InvalidDestination", arg |-> sink_nid]
    ELSE IF status = -EAGAIN THEN [tag |-> "DestinationOffline", arg |-> sink_nid]
    ELSE IF status = -EBUSY THEN [tag |-> "AlreadyAtDestination", arg |-> sink_nid]
    ELSE [tag |-> "Unclassified", arg |-> status]
C10_OutboundFailureClassified ==
    \A i \in Threads : \A k \in 1..Len(hops[i]) :
        (hops[i][k].dest = th[i].sink_nid /\ ~hops[i][k].ok) =>
            /\ k = Len(hops[i])
            /\ th[i].done = 1
            /\ LastStatus(i) # 0
            /\ verdict[i] = C10_Line(LastStatus(i), th[i].sink_nid)
            /\ Finishing(i)
C10_Witness ==
    \E i \in Threads :
        /\ Len(hops[i]) = 1
        /\ ~hops[i][1].ok
        /\ LastStatus(i) = -EAGAIN
        /\ Returned(i)

\* nothing of the test proper exists yet: no task record, no handle array, no
\* barrier, no task thread, no migrate call
NothingStarted ==
    /\ handles = "none"
    /\ barrier_count = 0
    /\ \A i \in Threads : heap[i] = "none" /\ tpc[i] = "none" /\ hops[i] = <<>>

\* main is still before its allocations, or it returned a non-zero value
RejectedOrOnTheWay ==
    /\ mpc \in {"start", "args", "validate", "exited"}
    /\ mpc = "exited" => (exit_code # <<>> /\ exit_code # <<0>>)

\* all the node id arguments are on the command line
NodeArgsGiven == argc >= ExpectedArgc(harness)

\* C11: a run of either harness whose source and sink arguments are the same
\* value v, whatever v is, returns a non-zero exit code, and until then no task
\* storage is allocated, no thread is created and no migrate call is issued.
C11_EqualNodeIdsRejected ==
    (NodeArgsGiven /\ argv1 = argv2) => (NothingStarted /\ RejectedOrOnTheWay)

\* the equal pair (1, 1) of in-range ids was parsed and the run was ended
C11_Witness ==
    /\ argv1 = 1 /\ argv2 = 1
    /\ source_node = 1 /\ sink_node = 1
    /\ mpc = "exited" /\ exit_code = <<-1>>

\* a node id outside [0, MAX_POPCORN_NODES)
OutOfRange(v) == v < 0 \/ v >= MAX_POPCORN_NODES

\* C12: the validation step of main rejects every pair of node ids of which
\* one is negative or at least MAX_POPCORN_NODES (main returns a non-zero
\* value and nothing of the test exists), and it lets every pair of distinct
\* ids that both lie in [0, MAX_POPCORN_NODES) through to the allocation.
C12_RangeCheckMatchesInterval ==
    [][mpc = "validate" =>
          IF OutOfRange(source_node) \/ OutOfRange(sink_node)
          THEN /\ mpc' = "exited"
               /\ exit_code' # <<>> /\ exit_code' # <<0>>
               /\ NothingStarted'
          ELSE source_node # sink_node =>
                  (mpc' \in {"alloc", "init_thread_params"} /\ exit_code' = <<>>)
      ]_vars

\* the pair (MAX_POPCORN_NODES - 1, 0), on the upper edge, passed validation
C12_Witness ==
    /\ source_node = MAX_POPCORN_NODES - 1 /\ sink_node = 0
    /\ mpc \in {"alloc", "init_thread_params"}

\* C13: a run of either harness whose command line has not the expected
\* number of arguments (2 for ft2c, 3 for tnd) is a usage error: no argument
\* is parsed, nothing of the test is started, and main returns a non-zero
\* value.
C13_WrongArgCountIsUsageError ==
    argc # ExpectedArgc(harness) =>
        /\ mpc \in {"start", "args", "exited"}
        /\ mpc = "exited" => (exit_code # <<>> /\ exit_code # <<0>>)
        /\ source_node = 0 /\ sink_node = 0 /\ nthreads = 0
        /\ NothingStarted

\* C14: tnd rejects a task count outside [0, MAX_POPCORN_NODES) the way it
\* rejects such a node id: once the count is parsed main returns a non-zero
\* value, and no handle array or task record is allocated, the barrier is not
\* initialised and no thread is created.
C14_TaskCountValidated ==
    (harness = "tnd" /\ OutOfRange(nthreads)) =>
        (NothingStarted /\ RejectedOrOnTheWay)

\* a call that allocates task storage failed: posix_memalign returned a
\* status, or malloc returned NULL for an array of at least one handle
AllocationFailed ==
    \/ main_errno = ENOMEM
    \/ handles = "null" /\ nthreads > 0

\* C15: when an allocation of task storage fails (the handle array or a task
\* record) main returns a non-zero value, and no task thread was created and
\* no migrate call was issued.
C15_AllocationFailureIsFatal ==
    AllocationFailed =>
        /\ mpc = "exited" /\ exit_code # <<>> /\ exit_code # <<0>>
        /\ \A i \in Threads : tpc[i] = "none" /\ hops[i] = <<>>

\* a task on its way out of child_thread or out of it
Leaving(i) == tpc[i] \in {"inc_load", "inc_store", "returned"}

\* the FAILED lines of a task
FailureTags ==
    {"TidInvalid", "NodeSanity", "ThreadSanity", "TidMismatch"}
        \cup MigrationErrorTags

\* C16: a tnd task never passes.  While its node query, every migrate call
\* and every gettid went well, however many hops it has made, its done flag
\* is 0 and it has neither started to increment all_done nor returned; done
\* is 1 only once the task printed a FAILED line.
C16_TndTaskNeverPasses ==
    harness = "tnd" =>
        \A i \in Threads :
            /\ verdict[i].tag # "Passed"
            /\ healthy[i] => (th[i].done = 0 /\ ~Leaving(i))
            /\ (th[i].done = 1 \/ Leaving(i)) => verdict[i].tag \in FailureTags

\* a task that made MaxHops successful hops and is still in its loop
C16_Witness ==
    /\ harness = "tnd"
    /\ \E i \in Threads :
          /\ healthy[i] /\ Len(hops[i]) = MaxHops
          /\ th[i].done = 0 /\ tpc[i] = "sink_tid"

InLoop(j) == tpc[j] \in {"migrate_out", "sink_tid", "migrate_back", "sleep"}

\* a task in its loop can take its next step, whatever the others did (up to
\* the number of hops followed)
LoopNeverBlocked ==
    harness = "tnd" =>
        \A j \in Threads :
            (InLoop(j) /\ Len(hops[j]) < MaxHops) => ENABLED tnd_child_thread(j)

\* C18: a step of a tnd task on its failure path (one that sets done or moves
\* the task towards its return) changes nothing of any sibling: the sibling's
\* record, locals, position in child_thread, hops and verdict are the same
\* after the step, and so is main's state; and a sibling in its loop can
\* always take its next step.
C18_FailureScopedToTask ==
    /\ []LoopNeverBlocked
    /\ [][\A i \in Threads :
             (/\ harness = "tnd"
              /\ \/ th[i].done = 0 /\ th'[i].done = 1
                 \/ tpc'[i] # tpc[i] /\ Leaving(i)') =>
                 /\ \A j \in Threads \ {i} :
                       /\ th'[j] = th[j] /\ loc'[j] = loc[j]
                       /\ tpc'[j] = tpc[j] /\ hops'[j] = hops[j]
                       /\ verdict'[j] = verdict[j]
                 /\ UNCHANGED <<mainVars, heap, barrierVars, gcount>>
         ]_vars

\* a task has returned Failed while a sibling is in its loop, hops made
C18_Witness ==
    /\ harness = "tnd"
    /\ \E i, j \in Threads :
          /\ i # j
          /\ Returned(i) /\ verdict[i].tag \in FailureTags
          /\ th[j].done = 0 /\ InLoop(j) /\ Len(hops[j]) = MaxHops

\* C19: ft2c's PASSED line is printed only after exactly two migrate calls,
\* the first to sink and the second to source, and a node query made after
\* the second that reported the task at source with both nodes Online.
C19_PassedOnlyAfterRoundTrip ==
    (harness = "ft2c" /\ verdict[0].tag = "Passed") =>
        /\ Len(hops[0]) = 2
        /\ hops[0][1].dest = sink_node
        /\ hops[0][2].dest = source_node
        /\ fresh[0]

\* the task passed a round trip from node MAX_POPCORN_NODES - 1 and returned
C19_Witness ==
    /\ harness = "ft2c" /\ verdict[0].tag = "Passed" /\ Returned(0)
    /\ source_node = MAX_POPCORN_NODES - 1

C21_ArchIndexInBounds ==
    harness = "tnd" => \A i \in Threads : ~th[i].oob

\* C22: in ft2c the task record is freed only after the task thread has
\* terminated: whenever pcn_thread is freed the thread has returned from
\* child_thread and has no step left to take, so none of its reads or writes
\* of the record (the read of done after the switch among them) comes after
\* the free.
C22_FreedOnlyAfterTaskReturned ==
    (harness = "ft2c" /\ heap[0] = "freed") =>
        (Returned(0) /\ ~ENABLED ft2c_child_thread)

\* the record was freed after the task left through the migration-error
\* switch and its read of done
C22_Witness ==
    /\ harness = "ft2c" /\ heap[0] = "freed"
    /\ verdict[0].tag \in MigrationErrorTags /\ th[0].done = 1

====
